---- MODULE Spec2Model ----
(***************************************************************************)
(* Model of Lab2/store/main.py: the websocket subscription registry        *)
(* (`subscriptions`), the subscription endpoint (`websocket_endpoint`),    *)
(* the broadcast loops (`send_data_websocket`, `send_data_to_subscribers`) *)
(* and the ingest endpoint (`create_processed_agent_data`).                *)
(*                                                                         *)
(* The program runs on one asyncio event loop: a coroutine runs without    *)
(* interruption until it awaits I/O.  The only awaits are                  *)
(* websocket.accept(), websocket.receive_text() and websocket.send_json(), *)
(* so every action below is the code between two such suspension points.   *)
(* conn.execute()/conn.commit() are blocking calls inside an async def and *)
(* therefore do not yield to other tasks.                                  *)
(***************************************************************************)
EXTENDS Integers, Sequences, FiniteSets, TLC

\* ---- bounds of the model ------------------------------------------------
NumConn   == 2      \* websocket connections that may ever be opened
MaxBatch  == 2      \* longest batch posted to /processed_agent_data/
MaxIngest == 1      \* number of POST requests served

Handles == 1..NumConn
Users   == {"u1", "u2"}
NoUser  == "none"
NoHandle == 0

\* kinds of disconnect signal a read loop can observe
Signals == {"peer_close", "io_error", "protocol_violation"}
\* outcomes of conn.execute(query); conn.commit()
Outcomes == {"ok", "insert_fail", "commit_fail"}

VARIABLES
    keys,       \* keys of the dict `subscriptions`, in insertion order
    subs,       \* subscriptions[u], the set of websockets of user u
    ws_pc,      \* position of each websocket_endpoint task
    ws_user,    \* its path parameter user_id
    sig,        \* event waiting in receive_text(), or "none"
    unreg,      \* number of subscriptions[user_id].remove(websocket) calls
    store,      \* committed rows of table processed_agent_data
    next_id,    \* next value of the serial primary key
    received,   \* messages each websocket's peer has received
    ing,        \* the create_processed_agent_data task
    obs,        \* record of what the current call has done
    req         \* the last keyed request (read, update, delete) or a
                \* direct call of the unregister statement, and its result

vars == <<keys, subs, ws_pc, ws_user, sig, unreg, store, next_id, received, ing,
         obs, req>>

\* ---- helpers ------------------------------------------------------------
Range(s) == {s[i] : i \in DOMAIN s}

\* main.py:96-100, 115-117  an item of a request body, reduced to its
\* agent_data.user_id and to whether its agent_data.timestamp parses as a
\* datetime
Items == [user_id : Users, ts_ok : BOOLEAN]

\* the request bodies a client may post: a non-empty list of items
Batches == UNION {[1..len -> Items] : len \in 1..MaxBatch}

\* faulty variant: only the first item of the body is validated
ValidFirstItem(data) == data[1].ts_ok

\* main.py:96-100, 155  the body is declared List[ProcessedAgentData] with
\* timestamp: datetime, so the framework validates every item before it
\* calls the endpoint function; one item that fails rejects the request
Valid(data) == \A i \in DOMAIN data : data[i].ts_ok

\* main.py:156-168  values = [{...} for item in data].  `val` stands for the
\* remaining columns (road_state, x, y, z, latitude, longitude, timestamp);
\* it is made unique per item so that records can be told apart.  The dicts
\* carry no "id" key.
Values(data, n) ==
    [i \in DOMAIN data |->
        [user_id |-> data[i].user_id, val |-> (n - 1) * (MaxBatch + 1) + i]]

\* main.py:169-172  the rows the INSERT adds once committed: the values plus
\* the serial primary key
Rows(values, first) ==
    {[id |-> first + i - 1, user_id |-> values[i].user_id, val |-> values[i].val]
        : i \in DOMAIN values}

\* faulty variant: the INSERT takes effect as soon as execute() returned
StoreAfterAutocommit(outcome, values, first) ==
    IF outcome # "insert_fail" THEN store \cup Rows(values, first) ELSE store

\* main.py:171-172  conn.execute(query); conn.commit(): the table after the
\* two calls.  An exception in either leaves the transaction uncommitted.
StoreAfter(outcome, values, first) ==
    IF outcome = "ok" THEN store \cup Rows(values, first) ELSE store

\* faulty variant: the broadcast runs although commit() raised
BroadcastBeforeCommit(outcome) == outcome # "insert_fail"

\* main.py:171-174  send_data_websocket(values) is reached only when neither
\* execute() nor commit() raised
ReachesBroadcast(outcome) == outcome = "ok"

\* main.py:141-143  the message handed to send_json: json.dumps of the whole
\* list `data`, whatever user_id the loop is at
Payload(user_id, data) == data

\* faulty variant: a text frame ends the read loop like a close frame
RaisedAlsoOnText(kind) ==
    IF kind \in {"peer_close", "io_error", "text"} THEN "WebSocketDisconnect"
    ELSE "KeyError"

\* main.py:131-135  the exception receive_text() raises for an event, or
\* "none" when it returns.  A text frame is returned to the loop.  A close
\* frame or a lost connection is reported by the server as a
\* websocket.disconnect event, which Starlette turns into
\* WebSocketDisconnect; a frame that is not text (message["text"] missing)
\* raises KeyError, which the except clause does not catch.
Raised(kind) ==
    IF kind = "text" THEN "none"
    ELSE IF kind \in {"peer_close", "io_error"} THEN "WebSocketDisconnect"
    ELSE "KeyError"

\* the peer of h can still take a message
Open(h) ==
    ws_pc[h] = "active" /\ sig[h] \in {"none", "text", "protocol_violation"}

\* faulty variant: the set of the user is created anew on every accept
RegisterFresh(u, h) == [subs EXCEPT ![u] = {h}]

\* main.py:128-130  subscriptions[user_id] after the accept: the set is
\* created only when the key is missing, then the websocket is added
Register(u, h) == [subs EXCEPT ![u] = @ \cup {h}]

\* faulty variant: a websocket whose send raised is dropped from its set
SubsPrunedAfterSendError(h) == [subs EXCEPT ![ws_user[h]] = @ \ {h}]

\* faulty variant: the exception of a send undoes the INSERT of the call
StoreRolledBackAfterSendError == obs.store0

\* main.py:170-174  the table after send_json raised: the transaction was
\* committed before the broadcast began and the exception touches nothing
StoreAfterSendError == store

\* main.py:139-148  subscriptions after send_json raised: the loops have no
\* except clause and touch no set
SubsAfterSendError(h) == subs

EmptyReg == [u \in Users |-> {}]

\* a position of the delivery loops
Pos(pc, error, di_pos, cur, si_used, si_rem, target, read_at) ==
    [pc |-> pc, error |-> error, di_pos |-> di_pos, cur |-> cur,
     si_used |-> si_used, si_rem |-> si_rem, target |-> target,
     read_at |-> read_at]

\* main.py:146-148  `for user_id in subscriptions.keys()`: the dict iterator
\* raises RuntimeError when the dict changed size since the loop began,
\* otherwise yields the keys in insertion order; for each key
\* send_data_to_subscribers creates the iterator of subscriptions[user_id]
\* (main.py:140) and runs up to its first send_json.  The order in which a
\* set yields its members is arbitrary.  The result is the set of positions
\* the task can be suspended at (or finished with).
RECURSIVE KeysNext(_, _, _)
KeysNext(pos, used, ra) ==
    IF Len(keys) # used
    THEN {Pos("failed", "RuntimeError", pos, NoUser, 0, {}, NoHandle, ra)}
    ELSE IF pos > Len(keys)
    THEN {Pos("ok", "none", pos, NoUser, 0, {}, NoHandle, ra)}
    ELSE LET u   == keys[pos]
             ra2 == [ra EXCEPT ![u] = subs[u]]
         IN  IF subs[u] = {}
             THEN KeysNext(pos + 1, used, ra2)
             ELSE {Pos("sending", "none", pos, u, Cardinality(subs[u]),
                       subs[u] \ {h}, h, ra2) : h \in subs[u]}

\* main.py:140  the next step of `for websocket in subscriptions[user_id]`
\* after a send_json returned: the set iterator raises RuntimeError when the
\* set's size differs from the size at the creation of the iterator,
\* otherwise yields a member it has not passed yet; when exhausted the outer
\* loop goes on with the next key.
SetNext(g, ra) ==
    IF Cardinality(subs[g.cur]) # g.si_used
    THEN {Pos("failed", "RuntimeError", g.di_pos, NoUser, 0, {}, NoHandle, ra)}
    ELSE IF g.si_rem = {}
    THEN KeysNext(g.di_pos + 1, g.di_used, ra)
    ELSE {Pos("sending", "none", g.di_pos, g.cur, g.si_used,
              g.si_rem \ {h}, h, ra) : h \in g.si_rem}

\* the task record at position p
AtPos(g, p) ==
    [g EXCEPT !.pc = p.pc, !.error = p.error, !.di_pos = p.di_pos,
              !.cur = p.cur, !.si_used = p.si_used, !.si_rem = p.si_rem,
              !.target = p.target, !.conn = (p.pc = "sending")]

\* `conn` tells whether the frame of the call holds the connection made by
\* engine.connect() (main.py:170): the code never closes it, it goes back
\* to the pool when the local variable dies with the frame
NoCall ==
    [pc |-> "idle", n |-> 0, data |-> <<>>, values |-> <<>>,
     outcome |-> "not_run", error |-> "none", conn |-> FALSE,
     di_pos |-> 0, di_used |-> 0, cur |-> NoUser,
     si_used |-> 0, si_rem |-> {}, target |-> NoHandle]

\* what one call of the ingest endpoint has done so far
NoObs ==
    [reg0 |-> EmptyReg,                  \* the registry when deliver began
     store0 |-> {},                      \* the table when the call began
     rows |-> {},                        \* the rows the call committed
     late |-> {},                        \* websockets registered since
     got |-> [h \in Handles |-> <<>>],   \* messages the call delivered
     tried |-> {},                       \* <<user, websocket>> sends begun
     raised |-> {},                      \* websockets whose send raised
     read_at |-> EmptyReg]               \* each set when its loop began

NoReq ==
    [op |-> "none", user |-> NoUser, id |-> 0, found |-> FALSE,
     result |-> "none", conn |-> FALSE]

Init ==
    /\ keys = <<>>
    /\ subs = EmptyReg
    /\ ws_pc = [h \in Handles |-> "connecting"]
    /\ ws_user = [h \in Handles |-> NoUser]
    /\ sig = [h \in Handles |-> "none"]
    /\ unreg = [h \in Handles |-> 0]
    /\ store = {}
    /\ next_id = 1
    /\ received = [h \in Handles |-> <<>>]
    /\ ing = NoCall
    /\ obs = NoObs
    /\ req = NoReq

\* ---- websocket_endpoint ---------------------------------------------------
\* main.py:127-130  accept() returned: create the set if needed and add the
\* websocket.  A set being iterated by the suspended delivery loop may place
\* the new member before or after the iterator's position.  Connections are
\* numbered in the order they are accepted.
Accept(h, u) ==
    /\ ws_pc[h] = "connecting"
    /\ \A k \in Handles : k < h => ws_pc[k] # "connecting"
    /\ ws_pc' = [ws_pc EXCEPT ![h] = "active"]
    /\ ws_user' = [ws_user EXCEPT ![h] = u]
    /\ keys' = IF u \in Range(keys) THEN keys ELSE Append(keys, u)
    /\ subs' = Register(u, h)
    /\ IF ing.pc = "sending"
       THEN /\ obs' = [obs EXCEPT !.late = @ \cup {h}]
            /\ IF ing.cur = u
               THEN \E ahead \in BOOLEAN :
                      ing' = [ing EXCEPT !.si_rem =
                                  IF ahead THEN @ \cup {h} ELSE @]
               ELSE ing' = ing
       ELSE UNCHANGED <<ing, obs>>
    /\ UNCHANGED <<sig, unreg, store, next_id, received, req>>

\* the peer closes, the connection breaks, or the peer sends a frame that is
\* not text: the event waits for the task's pending receive_text()
Signal(h, kind) ==
    /\ ws_pc[h] = "active"
    /\ sig[h] = "none"
    /\ sig' = [sig EXCEPT ![h] = kind]
    /\ UNCHANGED <<keys, subs, ws_pc, ws_user, unreg, store, next_id,
                   received, ing, obs, req>>

\* the peer sends a text frame
TextArrives(h) ==
    /\ ws_pc[h] = "active"
    /\ sig[h] = "none"
    /\ sig' = [sig EXCEPT ![h] = "text"]
    /\ UNCHANGED <<keys, subs, ws_pc, ws_user, unreg, store, next_id,
                   received, ing, obs, req>>

\* main.py:132-133  receive_text() returns the frame's text: the value is
\* not used and the loop awaits the next frame
ReceiveText(h) ==
    /\ ws_pc[h] = "active"
    /\ sig[h] # "none"
    /\ Raised(sig[h]) = "none"
    /\ sig' = [sig EXCEPT ![h] = "none"]
    /\ UNCHANGED <<keys, subs, ws_pc, ws_user, unreg, store, next_id,
                   received, ing, obs, req>>

\* main.py:131-135  receive_text() raises: WebSocketDisconnect is caught and
\* the websocket removed from its set; any other exception leaves the
\* function with the websocket still in the set.
ReceiveRaises(h) ==
    /\ ws_pc[h] = "active"
    /\ sig[h] # "none"
    /\ Raised(sig[h]) # "none"
    /\ IF Raised(sig[h]) = "WebSocketDisconnect"
       THEN /\ subs' = [subs EXCEPT ![ws_user[h]] = @ \ {h}]
            /\ unreg' = [unreg EXCEPT ![h] = @ + 1]
            /\ ws_pc' = [ws_pc EXCEPT ![h] = "closed"]
            /\ sig' = [sig EXCEPT ![h] = "none"]
            /\ ing' = IF ing.pc = "sending" /\ ing.cur = ws_user[h]
                      THEN [ing EXCEPT !.si_rem = @ \ {h}]
                      ELSE ing
       ELSE /\ ws_pc' = [ws_pc EXCEPT ![h] = "crashed"]
            /\ sig' = [sig EXCEPT ![h] = "none"]
            /\ UNCHANGED <<subs, unreg, ing>>
    /\ UNCHANGED <<keys, ws_user, store, next_id, received, obs, req>>

\* ---- create_processed_agent_data ----------------------------------------
\* main.py:154-155  a POST whose body fails validation: the framework
\* answers with a validation error and the function body never runs
Rejected(data) ==
    /\ ing.pc \in {"idle", "ok", "failed"}
    /\ ing.n < MaxIngest
    /\ ~Valid(data)
    /\ ing' = [NoCall EXCEPT !.n = ing.n + 1, !.data = data,
                             !.pc = "failed", !.error = "validation"]
    /\ obs' = [NoObs EXCEPT !.reg0 = subs, !.store0 = store]
    /\ UNCHANGED <<keys, subs, ws_pc, ws_user, sig, unreg, store, next_id,
                   received, req>>

\* main.py:155-174  a POST: build values, execute and commit the INSERT, then
\* run the delivery loops up to the first send_json (or to their end)
Ingest(data, outcome) ==
    /\ ing.pc \in {"idle", "ok", "failed"}
    /\ ing.n < MaxIngest
    /\ Valid(data)
    /\ LET n      == ing.n + 1
           values == Values(data, n)
           call   == [NoCall EXCEPT !.n = n, !.data = data,
                                    !.values = values,
                                    !.outcome = outcome,
                                    !.di_used = Len(keys)]
           o      == [NoObs EXCEPT !.reg0 = subs, !.store0 = store,
                        !.rows = IF outcome = "ok"
                                 THEN Rows(values, next_id) ELSE {}]
       IN  /\ store' = StoreAfter(outcome, values, next_id)
           /\ next_id' = IF outcome = "insert_fail" THEN next_id
                         ELSE next_id + Len(values)
           /\ IF ReachesBroadcast(outcome)
              THEN \E p \in KeysNext(1, Len(keys), EmptyReg) :
                     /\ ing' = AtPos(call, p)
                     /\ obs' = [o EXCEPT !.read_at = p.read_at,
                                  !.tried = IF p.pc = "sending"
                                            THEN {<<p.cur, p.target>>} ELSE {}]
              ELSE /\ ing' = [call EXCEPT !.pc = "failed", !.error = "store"]
                   /\ obs' = o
    /\ UNCHANGED <<keys, subs, ws_pc, ws_user, sig, unreg, received, req>>

\* the loops go on after a send_json that did not raise
Continue(o) ==
    \E p \in SetNext(ing, o.read_at) :
        /\ ing' = AtPos(ing, p)
        /\ obs' = [o EXCEPT !.read_at = p.read_at,
                     !.tried = IF p.pc = "sending"
                               THEN @ \cup {<<p.cur, p.target>>} ELSE @]

\* main.py:141-143  send_json returns: the peer has the message
SendOk ==
    /\ ing.pc = "sending"
    /\ Open(ing.target)
    /\ LET h == ing.target
           m == Payload(ing.cur, ing.values)
       IN  /\ received' = [received EXCEPT ![h] = Append(@, m)]
           /\ Continue([obs EXCEPT !.got[h] = Append(@, m)])
    /\ UNCHANGED <<keys, subs, ws_pc, ws_user, sig, unreg, store, next_id,
                   req>>

\* main.py:139-148, 174  send_json raises on a connection that is gone: no
\* frame of the three functions catches it, the request fails
SendRaises ==
    /\ ing.pc = "sending"
    /\ ~Open(ing.target)
    /\ ing' = [ing EXCEPT !.pc = "failed", !.error = "send", !.si_rem = {},
                          !.conn = FALSE]
    /\ obs' = [obs EXCEPT !.raised = @ \cup {ing.target}]
    /\ subs' = SubsAfterSendError(ing.target)
    /\ store' = StoreAfterSendError
    /\ UNCHANGED <<keys, ws_pc, ws_user, sig, unreg, next_id, received, req>>

\* main.py:141-143  send_json on a connection that is gone returns without
\* an error (the server drops the frame): nothing arrives, the loop goes on
SendDropped ==
    /\ ing.pc = "sending"
    /\ ~Open(ing.target)
    /\ Continue(obs)
    /\ UNCHANGED <<keys, subs, ws_pc, ws_user, sig, unreg, store, next_id,
                   received, req>>

\* ---- keyed endpoints ------------------------------------------------------
\* the ids a client may ask for; the largest is never assigned
Ids == 1..(MaxBatch * MaxIngest + 1)

\* main.py:181-203  GET by id: the row, or HTTPException 404; the session is
\* closed in the finally clause
Read(id) ==
    /\ LET found == \E row \in store : row.id = id
       IN  req' = [NoReq EXCEPT !.op = "read", !.id = id, !.found = found,
                     !.result = IF found THEN "row" ELSE "not_found"]
    /\ UNCHANGED <<keys, subs, ws_pc, ws_user, sig, unreg, store, next_id,
                   received, ing, obs>>

\* main.py:234-252  PUT by id: the UPDATE is executed and committed and the
\* function returns None; the number of rows matched is not looked at.  The
\* connection is never closed and dies with the frame.
Update(id, item, outcome) ==
    /\ item.ts_ok
    /\ store' = IF outcome = "ok"
                THEN {IF row.id = id
                      THEN [id |-> id, user_id |-> item.user_id, val |-> 0]
                      ELSE row : row \in store}
                ELSE store
    /\ req' = [NoReq EXCEPT !.op = "update", !.id = id,
                 !.found = \E row \in store : row.id = id,
                 !.result = IF outcome = "ok" THEN "returned"
                            ELSE "store_error"]
    /\ UNCHANGED <<keys, subs, ws_pc, ws_user, sig, unreg, next_id, received,
                   ing, obs>>

\* main.py:259-265  DELETE by id: the DELETE is executed and committed and
\* the function returns None, whether a row matched or not
Delete(id, outcome) ==
    /\ store' = IF outcome = "ok" THEN {row \in store : row.id # id}
                ELSE store
    /\ req' = [NoReq EXCEPT !.op = "delete", !.id = id,
                 !.found = \E row \in store : row.id = id,
                 !.result = IF outcome = "ok" THEN "returned"
                            ELSE "store_error"]
    /\ UNCHANGED <<keys, subs, ws_pc, ws_user, sig, unreg, next_id, received,
                   ing, obs>>

\* ---- the unregister statement ---------------------------------------------
\* main.py:135  subscriptions[user_id].remove(websocket) for any arguments:
\* the dict lookup raises KeyError for a user_id that is no key, set.remove
\* raises KeyError for a websocket that is not a member
Remove(u, h) ==
    IF u \notin Range(keys) \/ h \notin subs[u]
    THEN [err |-> "KeyError", subs |-> subs]
    ELSE [err |-> "none", subs |-> [subs EXCEPT ![u] = @ \ {h}]]

\* the statement run by a caller
Unregister(u, h) ==
    /\ LET r == Remove(u, h)
       IN  /\ subs' = r.subs
           /\ req' = [NoReq EXCEPT !.op = "unregister", !.user = u,
                        !.id = h, !.found = (h \in subs[u]),
                        !.result = r.err]
    /\ UNCHANGED <<keys, ws_pc, ws_user, sig, unreg, store, next_id,
                   received, ing, obs>>

Next ==
    \/ \E h \in Handles, u \in Users : Accept(h, u)
    \/ \E h \in Handles, kind \in Signals : Signal(h, kind)
    \/ \E h \in Handles : TextArrives(h)
    \/ \E h \in Handles : ReceiveText(h)
    \/ \E h \in Handles : ReceiveRaises(h)
    \/ \E data \in Batches : Rejected(data)
    \/ \E data \in Batches, outcome \in Outcomes : Ingest(data, outcome)
    \/ SendOk
    \/ SendRaises
    \/ SendDropped

\* the subscribers and the ingest endpoint
Spec == Init /\ [][Next]_vars

\* the peers that never take a message off their connection
SlowPeers == {1}

\* the event loop resumes a task once the I/O it awaits has completed: a
\* send to a peer that takes its messages completes, a send to a connection
\* that is gone ends, and a waiting event is read
FairSpec ==
    /\ Spec
    /\ WF_vars(SendOk /\ ing.target \notin SlowPeers)
    /\ WF_vars(SendRaises)
    /\ WF_vars(SendDropped)
    /\ \A h \in Handles : WF_vars(ReceiveText(h))
    /\ \A h \in Handles : WF_vars(ReceiveRaises(h))

\* the ingest endpoint and the keyed endpoints, with no subscriber
NextCrud ==
    \/ \E data \in Batches : Rejected(data)
    \/ \E data \in Batches, outcome \in Outcomes : Ingest(data, outcome)
    \/ \E id \in Ids : Read(id)
    \/ \E id \in Ids, item \in Items, outcome \in Outcomes :
          Update(id, item, outcome)
    \/ \E id \in Ids, outcome \in Outcomes : Delete(id, outcome)

CrudSpec == Init /\ [][NextCrud]_vars

\* the registry under accepts and calls of the unregister statement
NextRegistry ==
    \/ \E h \in Handles, u \in Users : Accept(h, u)
    \/ \E h \in Handles, u \in Users : Unregister(u, h)

RegistrySpec == Init /\ [][NextRegistry]_vars
\* ---- properties ---------------------------------------------------------
AgentsIn(values) == {values[i].user_id : i \in DOMAIN values}

\* the records of a batch that belong to agent u, in batch order
Partition(values, u) == SelectSeq(values, LAMBDA r : r.user_id = u)

\* h has been connected and undisturbed up to now
Live(h) == ws_pc[h] = "active" /\ sig[h] \in {"none", "text"}

Finished == ing.pc \in {"ok", "failed"}

RecordsOf(msgs) == UNION {Range(msgs[i]) : i \in DOMAIN msgs}

Committed(r) == \E row \in store : row.user_id = r.user_id /\ row.val = r.val

\* C1: after a successful ingest, every subscriber that was registered for
\* an agent of the batch when deliver began (and stayed connected) has
\* received exactly one message: the batch's records of its agent, in batch
\* order.
C1_ExactPartition ==
    ing.pc = "ok" =>
        \A u \in AgentsIn(ing.values) : \A h \in obs.reg0[u] :
            Live(h) => obs.got[h] = <<Partition(ing.values, u)>>

\* C2: an ingest sends messages only to websockets registered for an agent
\* that occurs in the batch.
C2_OnlyBatchAgents ==
    \A h \in Handles :
        obs.got[h] # <<>> => ws_user[h] \in AgentsIn(ing.values)

\* C3: when a send to one websocket has failed, every other websocket that
\* was registered for an agent of the batch when deliver began (and is
\* still connected) has received its message by the end of the call.
C3_FailureIsolated ==
    (Finished /\ obs.raised # {}) =>
        \A u \in AgentsIn(ing.values) : \A h \in obs.reg0[u] \ obs.raised :
            Live(h) => obs.got[h] # <<>>

\* C4: a call whose commit succeeded ends in success, whatever happened to
\* the sends of its broadcast.
C4_CommitMeansSuccess ==
    (Finished /\ ing.outcome = "ok") => ing.pc = "ok"

\* C5: the delivery loops never fault because the registry changed, and for
\* each agent the websockets sent to are members of the set as it was when
\* its loop began, all of them once the call has succeeded.
C5_DeliverUnaffected ==
    /\ ing.error # "RuntimeError"
    /\ \A u \in Users :
         LET to == {h \in Handles : <<u, h>> \in obs.tried}
         IN  /\ to \subseteq obs.read_at[u]
             /\ ing.pc = "ok" => to = obs.read_at[u]

\* C6: a websocket registered after the delivery began receives nothing
\* from that call.
C6_LateNotDelivered ==
    \A h \in obs.late : obs.got[h] = <<>>

\* C7: every record a subscriber has received is committed in the store.
C7_SentOnlyCommitted ==
    \A h \in Handles : \A r \in RecordsOf(received[h]) : Committed(r)

C7_Witness ==
    \E h \in Handles : received[h] # <<>> /\ ing.outcome = "ok"

\* C8: when execute() or commit() failed, the call has failed, no record of
\* its batch is in the store, and no send was begun nor any record of the
\* batch received by a subscriber.
C8_FailedPersistenceNoEffect ==
    ing.outcome \in {"insert_fail", "commit_fail"} =>
        /\ ing.pc = "failed"
        /\ \A r \in Range(ing.values) : ~Committed(r)
        /\ obs.tried = {}
        /\ \A h \in Handles :
             RecordsOf(received[h]) \cap Range(ing.values) = {}

C8_Witness ==
    /\ ing.outcome = "commit_fail"
    /\ ing.pc = "failed"
    /\ \E h \in Handles : Live(h) /\ h \in subs[ws_user[h]]

\* C9: a websocket is in the set of agent u exactly when it is an accepted,
\* still active connection for u.
C9_RegistryIffActive ==
    \A h \in Handles : \A u \in Users :
        h \in subs[u] <=> (ws_pc[h] = "active" /\ ws_user[h] = u)

\* C10: a connection whose read loop has ended on a disconnect signal is in
\* no set, and its removal was performed exactly once.
C10_DisconnectUnregistersOnce ==
    \A h \in Handles :
        /\ unreg[h] <= 1
        /\ ws_pc[h] \in {"closed", "crashed"} =>
             /\ unreg[h] = 1
             /\ \A u \in Users : h \notin subs[u]

\* C13: every record delivered to a subscriber carries the id the store
\* assigned to it: the record has an id and the row of that id has held its
\* columns.
C13_DeliveredCarryId ==
    \A h \in Handles : \A r \in RecordsOf(received[h]) :
        /\ "id" \in DOMAIN r
        /\ r.id < next_id

\* C15: whatever the interleaving of the connection tasks, the set of agent
\* u holds exactly the websockets that registered for u and have not
\* unregistered since.
C15_RegistryIsNetRegistrations ==
    \A u \in Users : \A h \in Handles :
        h \in subs[u] <=>
            (ws_user[h] = u /\ ws_pc[h] # "connecting" /\ unreg[h] = 0)

C15_Witness ==
    \E u \in Users : \E a, b \in Handles :
        /\ a # b
        /\ ws_user[a] = u /\ ws_user[b] = u
        /\ unreg[a] = 1
        /\ subs[u] = {b}

\* C19: the membership of a websocket in a set changes only in a step of
\* its own endpoint task (accept or disconnect handling), never in a step
\* of the ingest call; a websocket whose send raised is still registered
\* as long as its own task has not removed it.
C19_OnlyOwnTaskChangesRegistry ==
    /\ [][\A h \in Handles : \A u \in Users :
            ((h \in subs'[u]) # (h \in subs[u])) =>
                /\ ws_pc'[h] # ws_pc[h]
                /\ ing'.n = ing.n /\ ing'.pc = ing.pc
                /\ received' = received]_vars
    /\ [](\A h \in obs.raised :
            unreg[h] = 0 => h \in subs[ws_user[h]])

C19_Witness ==
    \E h \in obs.raised : ing.pc = "failed" /\ h \in subs[ws_user[h]]

HasInvalid(data) == \E i \in DOMAIN data : ~data[i].ts_ok

\* C14: a call whose body has an invalid item fails with a validation
\* error before any persistence attempt: the step leaves the store and
\* every received message as they were, and the call begins no send.
C14_AtomicReject ==
    /\ [](HasInvalid(ing.data) =>
            /\ ing.pc = "failed" /\ ing.error = "validation"
            /\ ing.outcome = "not_run"
            /\ obs.tried = {}
            /\ \A h \in Handles : obs.got[h] = <<>>)
    /\ [][(ing'.n # ing.n /\ HasInvalid(ing'.data)) =>
            (store' = store /\ next_id' = next_id /\ received' = received)]_vars

C14_Witness ==
    /\ HasInvalid(ing.data)
    /\ \E i \in DOMAIN ing.data : ing.data[i].ts_ok
    /\ \E h \in Handles : Live(h) /\ h \in subs[ws_user[h]]

\* C18: the rows a call committed stay in the store through its broadcast,
\* whether the sends succeed, fail, or the loops fault: the store is what it
\* was before the call plus one row for every record of the batch.
C18_CommitSurvivesBroadcast ==
    (ing.outcome = "ok" /\ ing.pc # "idle") =>
        /\ store = obs.store0 \cup obs.rows
        /\ obs.store0 \cap obs.rows = {}
        /\ Cardinality(obs.rows) = Len(ing.values)
        /\ {[user_id |-> row.user_id, val |-> row.val] : row \in obs.rows}
             = Range(ing.values)

C18_Witness ==
    /\ ing.pc = "failed"
    /\ ing.error \in {"send", "RuntimeError"}
    /\ obs.rows # {}
    /\ obs.rows \subseteq store

Awaiting(h) ==
    /\ ing.pc = "sending"
    /\ h \notin SlowPeers
    /\ Live(h)
    /\ h \in obs.reg0[ws_user[h]]
    /\ obs.got[h] = <<>>

\* C12: a websocket that awaits the batch of a call gets it (or disconnects,
\* or the call ends) even when the send to another websocket never
\* completes.
C12_SlowDoesNotBlock ==
    \A h \in Handles : [](Awaiting(h) => <>(~Awaiting(h)))

\* C16: a read, an update or a delete of an id that is not in the store
\* ends in a not-found failure.
C16_MissingIdNotFound ==
    (req.op \in {"read", "update", "delete"} /\ ~req.found
        /\ req.result # "store_error")
    => req.result = "not_found"

\* C17: no call holds a store connection while it is suspended on a send
\* to a subscriber, nor after it has returned or failed.
C17_ConnectionReleased ==
    /\ ing.pc = "sending" => ~ing.conn
    /\ Finished => ~ing.conn
    /\ ~req.conn
====
